---- MODULE Spec2Model ----
(***************************************************************************)
(* A model of netapp_exporter.py: the /metrics handler, the thread pool of  *)
(* three collectors, fetch_json and the process-wide prometheus registry.   *)
(*                                                                         *)
(* JSON objects are functions whose DOMAIN is the set of keys present, so   *)
(* dict.get(key, default) is get(d, key, default).  Python's None and a     *)
(* value v are the sequences <<>> and <<v>>.  A gauge value is the float    *)
(* Gauge.set() stores, kept exact as a reduced fraction <<num, den>>.       *)
(*                                                                         *)
(* One collector step is one pass of the for loop: the detail fetch and the *)
(* gauge writes that follow it.  Threads interleave between steps.          *)
(***************************************************************************)
EXTENDS Integers, Sequences, FiniteSets, TLC

VARIABLES
    upstream,   \* which cluster the exporter is pointed at (fixed for a run)
    hpc,        \* metrics(): position of the request handler
    nsub,       \* collect_metrics(): number of executor.submit calls made
    cpc,        \* per collector: "idle", "list", "loop", "returned", "raised"
    entries,    \* per collector: the list being iterated
    idx,        \* per collector: index of the next list entry
    gauges,     \* the registry: family -> (labels -> value)
    failed,     \* failed_requests: endpoint -> count
    response,   \* the body of the last response, None while a scrape runs
    writers     \* history: family -> collectors that have written it

vars == <<upstream, hpc, nsub, cpc, entries, idx, gauges, failed, response, writers>>

----------------------------------------------------------------------------
(* Bounds of the model *)

MaxLen == 2          \* longest list a list endpoint returns
MaxNames == 1        \* distinct resource names upstream (beside a missing name)
MaxBytes == 1        \* largest byte count or number upstream
MaxFailures == 2     \* failed fetches in one process (caps failed_requests)

----------------------------------------------------------------------------
(* Python values *)

None == <<>>
Some(v) == <<v>>

\* dict.get(key, default)
get(d, key, default) == IF key \in DOMAIN d THEN d[key] ELSE default

\* dict.get(key): None when the key is missing
get_opt(d, key) == IF key \in DOMAIN d THEN Some(d[key]) ELSE None

\* truth value of an optional string: None and "" are false
truthy(opt) == opt # None /\ opt[1] # ""

RECURSIVE gcd(_, _)
gcd(a, b) == IF b = 0 THEN a ELSE gcd(b, a % b)

\* int / int, exact
truediv(a, b) == LET g == gcd(a, b) IN <<a \div g, b \div g>>

\* float * int, exact
mul(q, n) == LET g == gcd(q[1] * n, q[2]) IN <<(q[1] * n) \div g, q[2] \div g>>

\* float(value) as Gauge.set applies it
float(n) == <<n, 1>>

\* the function f with key k bound to v
put(f, k, v) == [x \in DOMAIN f \cup {k} |-> IF x = k THEN v ELSE f[x]]

----------------------------------------------------------------------------
(* The registry *)

VolumeFamilies ==
    {"netapp_volume_used_bytes", "netapp_volume_size_bytes",
     "netapp_volume_available_bytes", "netapp_volume_usage_percent",
     "netapp_volume_info", "netapp_volume_create_time"}

TierFamilies ==
    {"netapp_tier_used_bytes", "netapp_tier_size_bytes",
     "netapp_tier_available_bytes", "netapp_tier_usage_percent",
     "netapp_tier_full_threshold_percent", "netapp_tier_physical_used_bytes"}

NodeFamilies ==
    {"netapp_node_uptime_seconds", "netapp_node_state",
     "netapp_node_cpu_count", "netapp_node_memory_size_bytes"}

GaugeFamilies == VolumeFamilies \cup TierFamilies \cup NodeFamilies

CounterFamily == "netapp_failed_requests"

Families == GaugeFamilies \cup {CounterFamily}

\* one Gauge.labels(**labels).set(value) call, value already float(value)
Sample(family, labels, value) == [family |-> family, labels |-> labels, value |-> value]

Key(s) == [family |-> s.family, labels |-> s.labels]

\* Gauge.labels(**labels).set(value) for a sequence of samples, in order: the
\* child of every key set is created or overwritten and holds the value of the
\* last call that set it; every other key keeps its value
set_all(g, ss) ==
    [f \in DOMAIN g |->
        [l \in DOMAIN g[f] \cup {ss[i].labels : i \in {j \in DOMAIN ss : ss[j].family = f}} |->
            LET calls == {i \in DOMAIN ss : ss[i].family = f /\ ss[i].labels = l}
            IN  IF calls = {} THEN g[f][l]
                ELSE ss[CHOOSE i \in calls : \A j \in calls : j <= i].value]]

\* Counter.labels(endpoint=url).inc()
counter_inc(ctr, url) == put(ctr, url, get(ctr, url, 0) + 1)

----------------------------------------------------------------------------
(* The upstream cluster: what a GET can answer *)

Kinds == {"volume", "tier", "node"}

OntapIp == "default_ip"

Url(path) == <<"https://", OntapIp, path>>

ListPath(k) ==
    IF k = "volume" THEN "/api/storage/volumes"
    ELSE IF k = "tier" THEN "/api/storage/aggregates"
    ELSE "/api/cluster/nodes"

Href(k) == IF k = "volume" THEN "/api/storage/volumes/u1"
           ELSE IF k = "tier" THEN "/api/storage/aggregates/u1"
           ELSE "/api/cluster/nodes/u1"

\* the failed fetches counted so far, over all endpoints
Total(ctr) ==
    get(ctr, Url(ListPath("volume")), 0) + get(ctr, Url(ListPath("tier")), 0)
        + get(ctr, Url(ListPath("node")), 0)
        + get(ctr, Url(Href("volume")), 0) + get(ctr, Url(Href("tier")), 0)

\* The clusters of the model.  "faults" holds plain resources of every kind,
\* all linked and of one name; each of the others holds resources of one kind
\* only, whose fields and links vary.  A fetch for a kind the cluster holds may
\* fail in every way and its list may come in either shape.
Clusters == {"faults", "volumes", "volume_info", "tiers", "nodes"}

Populated(k) ==
    \/ upstream = "faults"
    \/ k = "volume" /\ upstream \in {"volumes", "volume_info"}
    \/ k = "tier" /\ upstream = "tiers"
    \/ k = "node" /\ upstream = "nodes"

NamePool == <<"a", "b", "c">>
Names == {NamePool[i] : i \in 1..MaxNames}
Bytes == 0..MaxBytes

\* a key that is missing, or present with one of the values
Field(key, values) == {<<>>} \cup {key :> v : v \in values}

NameParts ==
    IF upstream \in {"faults", "tiers"} THEN {[name |-> NamePool[1]]}
    ELSE Field("name", Names)

\* an entry's detail link: missing or empty at some level, or present
LinkParts(k) ==
    IF upstream = "faults" THEN {"_links" :> [self |-> [href |-> Href(k)]]}
    ELSE {<<>>, "_links" :> [self |-> [href |-> Href(k)]]}
            \cup (IF upstream = "tiers"
                  THEN {"_links" :> [self |-> <<>>], "_links" :> [self |-> [href |-> ""]]}
                  ELSE {})

SpaceFields ==
    {<<>>, [used |-> MaxBytes, size |-> MaxBytes, available |-> MaxBytes]}
        \cup {u @@ s : u \in Field("used", Bytes), s \in Field("size", Bytes \ {0})}
        \cup {[used |-> u, size |-> 0] : u \in Bytes \ {0}}

CreateTimes == {"2023-01-01T00:00:00Z", "not-a-date"}

InfoParts ==
    {<<>>,
     [style |-> "flexvol", type |-> "rw", snapshot_policy |-> [name |-> "default"],
      svm |-> [name |-> "svm1"]],
     [snapshot_policy |-> <<>>, svm |-> <<>>]}

PlainVolume == [space |-> [used |-> 1, size |-> 1], create_time |-> "2023-01-01T00:00:00Z"]

VolumeDetails ==
    IF upstream = "volumes" THEN {<<>>} \cup {[space |-> s] : s \in SpaceFields}
    ELSE IF upstream = "volume_info"
    THEN {c @@ i : c \in Field("create_time", CreateTimes), i \in InfoParts}
    ELSE {PlainVolume}

PlainTier == [space |-> [block_storage |-> [used |-> 1, size |-> 1]]]

TierDetails ==
    IF upstream = "tiers"
    THEN {<<>>, [space |-> <<>>]}
         \cup {[space |-> [block_storage |-> b]] : b \in SpaceFields}
         \cup {[space |-> [block_storage |->
                  [full_threshold_percent |-> MaxBytes, physical_used |-> MaxBytes]]]}
    ELSE {PlainTier}

NodeParts ==
    IF upstream = "nodes"
    THEN {<<>>, [controller |-> <<>>], [state |-> "down", controller |-> [cpu |-> <<>>]]}
         \cup {[uptime |-> u, state |-> s, controller |-> c] :
                 u \in Bytes \ {0}, s \in {"up", "UP"},
                 c \in {[cpu |-> [count |-> MaxBytes], memory_size |-> MaxBytes]}}
    ELSE {[state |-> "up"]}

Entries(k) ==
    {n @@ l @@ d : n \in NameParts, l \in LinkParts(k),
                   d \in IF k = "node" THEN NodeParts ELSE {<<>>}}

Lists(k) == IF Populated(k) THEN UNION {[1..n -> Entries(k)] : n \in 0..MaxLen} ELSE {<<>>}

Array(l) == [type |-> "array", items |-> l]

Envelope(l) == [type |-> "object", fields |-> [records |-> l]]

\* a list response: the bare sequence, or the envelope {"records": [...]}
ListBodies(k) ==
    {Envelope(l) : l \in Lists(k)}
        \cup (IF Populated(k) THEN {Array(l) : l \in Lists(k)} ELSE {})

Object(d) == [type |-> "object", fields |-> d]

HTTP_OK == 200

\* what requests.get does: an exception, or a response with a status and a body
\* that parses as JSON (json = <<value>>) or does not (json = <<>>)
Failures ==
    {[kind |-> "exception"],
     [kind |-> "response", status |-> 500, json |-> <<>>],
     [kind |-> "response", status |-> HTTP_OK, json |-> <<>>]}

Ok(body) == [kind |-> "response", status |-> HTTP_OK, json |-> <<body>>]

\* the replies a fetch for kind k can get now
Replies(k, bodies) ==
    {Ok(b) : b \in bodies}
        \cup (IF Populated(k) /\ Total(failed) < MaxFailures THEN Failures ELSE {})

----------------------------------------------------------------------------
(* fetch_json *)

\* fetch_json with response.json() outside the try: a body that does not parse
\* is not counted
fetch_json_json_uncounted(url, reply, ctr) ==
    IF reply.kind = "exception"
    THEN [ret |-> None, failed |-> counter_inc(ctr, url)]
    ELSE IF reply.status = HTTP_OK
         THEN IF reply.json = <<>>
              THEN [ret |-> None, failed |-> ctr]
              ELSE [ret |-> Some(reply.json[1]), failed |-> ctr]
         ELSE [ret |-> None, failed |-> counter_inc(ctr, url)]

\* returns the parsed JSON or None, and the failure counter after the call
fetch_json(url, reply, ctr) ==
    IF reply.kind = "exception"
    THEN [ret |-> None, failed |-> counter_inc(ctr, url)]
    ELSE IF reply.status = HTTP_OK
         THEN IF reply.json = <<>>
              THEN [ret |-> None, failed |-> counter_inc(ctr, url)]
              ELSE [ret |-> Some(reply.json[1]), failed |-> ctr]
         ELSE [ret |-> None, failed |-> counter_inc(ctr, url)]

----------------------------------------------------------------------------
(* Field extraction of the three collectors *)

\* data.get("records", data): None stands for the AttributeError a list raises
records_of(data) ==
    IF data.type = "array" THEN None
    ELSE IF "records" \in DOMAIN data.fields THEN Some(data.fields.records)
    ELSE IF DOMAIN data.fields = {} THEN Some(<<>>)
    ELSE None

name_of(entry) == get(entry, "name", "Inconnu")

self_href(entry) == get_opt(get(get(entry, "_links", <<>>), "self", <<>>), "href")

\* the ratio without the factor 100
percent_used_ratio(used, size) == IF size > 0 THEN truediv(used, size) ELSE float(0)

\* (used / size * 100) if size > 0 else 0
percent_used(used, size) == IF size > 0 THEN mul(truediv(used, size), 100) ELSE float(0)

\* create_time_str.replace("Z", "+00:00")
replace_Z(s) == IF s = "2023-01-01T00:00:00Z" THEN "2023-01-01T00:00:00+00:00" ELSE s

\* datetime.fromisoformat(s).timestamp(): None stands for the ValueError raised
fromisoformat_timestamp(s) ==
    IF s = "2023-01-01T00:00:00+00:00" THEN Some(1672531200) ELSE None

create_time_of(vol_detail) ==
    LET create_time_str == get_opt(vol_detail, "create_time")
    IN  IF truthy(create_time_str)
        THEN LET ts == fromisoformat_timestamp(replace_Z(create_time_str[1]))
             IN  IF ts = None THEN 0 ELSE ts[1]
        ELSE 0

space_samples(vol_name, vol_detail) ==
    LET space == get(vol_detail, "space", <<>>)
        used == get(space, "used", 0)
        size == get(space, "size", 0)
        available == get(space, "available", 0)
        l == [volume |-> vol_name]
    IN  IF DOMAIN space # {}
        THEN << Sample("netapp_volume_used_bytes", l, float(used)),
                Sample("netapp_volume_size_bytes", l, float(size)),
                Sample("netapp_volume_available_bytes", l, float(available)),
                Sample("netapp_volume_usage_percent", l, percent_used(used, size)) >>
        ELSE <<>>

\* the info gauge keyed by the policy and SVM objects' presence, not their names
info_labels_no_policy(vol_name, vol_detail) ==
    [volume |-> vol_name,
     style |-> get(vol_detail, "style", "unknown"),
     type |-> get(vol_detail, "type", "unknown")]

info_labels(vol_name, vol_detail) ==
    [volume |-> vol_name,
     style |-> get(vol_detail, "style", "unknown"),
     type |-> get(vol_detail, "type", "unknown"),
     snapshot_policy |-> get(get(vol_detail, "snapshot_policy", <<>>), "name", "unknown"),
     svm |-> get(get(vol_detail, "svm", <<>>), "name", "unknown")]

\* the Gauge.set calls of one pass of the volume loop, in order
volume_samples(vol_name, vol_detail) ==
    space_samples(vol_name, vol_detail)
        \o << Sample("netapp_volume_create_time", [volume |-> vol_name],
                     float(create_time_of(vol_detail))),
              Sample("netapp_volume_info", info_labels(vol_name, vol_detail), float(1)) >>

\* the Gauge.set calls of one pass of the aggregate loop, in order
tier_samples(tier_name, agg_detail) ==
    LET block_storage == get(get(agg_detail, "space", <<>>), "block_storage", <<>>)
        used == get(block_storage, "used", 0)
        size == get(block_storage, "size", 0)
        available == get(block_storage, "available", 0)
        full_threshold == get(block_storage, "full_threshold_percent", 0)
        physical_used == get(block_storage, "physical_used", 0)
        l == [tier |-> tier_name]
    IN  << Sample("netapp_tier_used_bytes", l, float(used)),
           Sample("netapp_tier_size_bytes", l, float(size)),
           Sample("netapp_tier_available_bytes", l, float(available)),
           Sample("netapp_tier_usage_percent", l, percent_used(used, size)),
           Sample("netapp_tier_full_threshold_percent", l, float(full_threshold)),
           Sample("netapp_tier_physical_used_bytes", l, float(physical_used)) >>

\* str.lower() on the state strings upstream
lower(s) == IF s = "UP" THEN "up" ELSE s

\* the node loop with the memory size written to the aggregate size gauge
node_samples_tier_size(node) ==
    LET l == [node |-> name_of(node)]
    IN  << Sample("netapp_node_uptime_seconds", l, float(get(node, "uptime", 0))),
           Sample("netapp_tier_size_bytes", l,
                  float(get(get(node, "controller", <<>>), "memory_size", 0))) >>

\* the Gauge.set calls of one pass of the node loop, in order
node_samples(node) ==
    LET node_name == name_of(node)
        uptime == get(node, "uptime", 0)
        state_str == lower(get(node, "state", ""))
        state_val == IF state_str = "up" THEN 1 ELSE 0
        cpu_count == get(get(get(node, "controller", <<>>), "cpu", <<>>), "count", 0)
        memory_size == get(get(node, "controller", <<>>), "memory_size", 0)
        l == [node |-> node_name]
    IN  << Sample("netapp_node_uptime_seconds", l, float(uptime)),
           Sample("netapp_node_state", l, float(state_val)),
           Sample("netapp_node_cpu_count", l, float(cpu_count)),
           Sample("netapp_node_memory_size_bytes", l, float(memory_size)) >>

----------------------------------------------------------------------------
(* Initial state: the module has been imported, nothing has been scraped *)

Range(s) == {s[i] : i \in DOMAIN s}

Init ==
    /\ upstream \in Clusters
    /\ hpc = "idle"
    /\ nsub = 0
    /\ cpc = [k \in Kinds |-> "idle"]
    /\ entries = [k \in Kinds |-> <<>>]
    /\ idx = [k \in Kinds |-> 0]
    /\ gauges = [f \in GaugeFamilies |-> <<>>]
    /\ failed = <<>>
    /\ response = None
    /\ writers = [f \in Families |-> {}]

----------------------------------------------------------------------------
(* The request handler and the orchestrator *)

SubmitOrder == <<"volume", "tier", "node">>

Finished(k) == cpc[k] \in {"returned", "raised"}

\* metrics() with a registry created per request
metrics_fresh_registry ==
    /\ hpc = "idle"
    /\ hpc' = "collect"
    /\ nsub' = 0
    /\ cpc' = [k \in Kinds |-> "idle"]
    /\ response' = None
    /\ gauges' = [f \in GaugeFamilies |-> <<>>]
    /\ UNCHANGED <<upstream, entries, idx, failed, writers>>

\* metrics(): a scrape request arrives and collect_metrics is entered
metrics ==
    /\ hpc = "idle"
    /\ hpc' = "collect"
    /\ nsub' = 0
    /\ cpc' = [k \in Kinds |-> "idle"]
    /\ response' = None
    /\ UNCHANGED <<upstream, entries, idx, gauges, failed, writers>>

\* executor.submit(collect_..._metrics, ...): the next collector starts
executor_submit ==
    /\ hpc = "collect"
    /\ nsub < Len(SubmitOrder)
    /\ nsub' = nsub + 1
    /\ cpc' = [cpc EXCEPT ![SubmitOrder[nsub + 1]] = "list"]
    /\ UNCHANGED <<upstream, hpc, entries, idx, gauges, failed, response, writers>>

\* the pool shut down without waiting (shutdown(wait=False))
collect_metrics_return_nowait ==
    /\ hpc = "collect"
    /\ nsub = Len(SubmitOrder)
    /\ hpc' = "render"
    /\ UNCHANGED <<upstream, nsub, cpc, entries, idx, gauges, failed, response, writers>>

\* the futures' results are read: an exception of a collector reaches the
\* handler, which then sends no metrics response
collect_metrics_return_result ==
    /\ hpc = "collect"
    /\ nsub = Len(SubmitOrder)
    /\ \A k \in Kinds : cpc[k] = "returned"
    /\ hpc' = "render"
    /\ UNCHANGED <<upstream, nsub, cpc, entries, idx, gauges, failed, response, writers>>

\* the with block ends: ThreadPoolExecutor.__exit__ waits for the three futures
collect_metrics_return ==
    /\ hpc = "collect"
    /\ nsub = Len(SubmitOrder)
    /\ \A k \in Kinds : Finished(k)
    /\ hpc' = "render"
    /\ UNCHANGED <<upstream, nsub, cpc, entries, idx, gauges, failed, response, writers>>

\* generate_latest() and the Response
generate_latest ==
    /\ hpc = "render"
    /\ hpc' = "idle"
    /\ response' = Some([gauges |-> gauges, failed |-> failed])
    /\ UNCHANGED <<upstream, nsub, cpc, entries, idx, gauges, failed, writers>>

----------------------------------------------------------------------------
(* The collectors *)

\* the history of which collector wrote which family
Record(k, ctr, samples) ==
    [f \in Families |->
        IF \/ f = CounterFamily /\ ctr # failed
           \/ \E s \in Range(samples) : s.family = f
        THEN writers[f] \cup {k} ELSE writers[f]]

\* the for loop moves to the next entry, or the function returns after the last
Advance(k) ==
    IF idx[k] < Len(entries[k])
    THEN /\ idx' = [idx EXCEPT ![k] = idx[k] + 1]
         /\ UNCHANGED <<cpc, entries>>
    ELSE /\ cpc' = [cpc EXCEPT ![k] = "returned"]
         /\ entries' = [entries EXCEPT ![k] = <<>>]
         /\ idx' = [idx EXCEPT ![k] = 0]

\* the list fetch of a collector, up to the start of its for loop, on a reply
list_fetch(k, reply) ==
    /\ cpc[k] = "list"
    /\ \E r \in {fetch_json(Url(ListPath(k)), reply, failed)} :
       \E records \in {IF r.ret = None THEN None ELSE records_of(r.ret[1])} :
           /\ failed' = r.failed
           /\ writers' = Record(k, r.failed, <<>>)
           /\ IF r.ret = None
              THEN /\ cpc' = [cpc EXCEPT ![k] = "returned"]
                   /\ UNCHANGED <<entries, idx>>
              ELSE IF records = None
              THEN /\ cpc' = [cpc EXCEPT ![k] = "raised"]
                   /\ UNCHANGED <<entries, idx>>
              ELSE IF records[1] = <<>>
              THEN /\ cpc' = [cpc EXCEPT ![k] = "returned"]
                   /\ UNCHANGED <<entries, idx>>
              ELSE /\ cpc' = [cpc EXCEPT ![k] = "loop"]
                   /\ entries' = [entries EXCEPT ![k] = records[1]]
                   /\ idx' = [idx EXCEPT ![k] = 1]
    /\ UNCHANGED <<upstream, hpc, nsub, gauges, response>>

\* a missing link ends the loop (break for continue)
skip_pass_break(k) ==
    /\ cpc[k] = "loop"
    /\ ~truthy(self_href(entries[k][idx[k]]))
    /\ cpc' = [cpc EXCEPT ![k] = "returned"]
    /\ entries' = [entries EXCEPT ![k] = <<>>]
    /\ idx' = [idx EXCEPT ![k] = 0]
    /\ UNCHANGED <<upstream, hpc, nsub, gauges, failed, response, writers>>

\* one pass of a for loop whose entry has no detail link
skip_pass(k) ==
    /\ cpc[k] = "loop"
    /\ ~truthy(self_href(entries[k][idx[k]]))
    /\ Advance(k)
    /\ UNCHANGED <<upstream, hpc, nsub, gauges, failed, response, writers>>

\* the Gauge.set calls the loop of collector k makes for a fetched detail
samples_of(k, name, detail) ==
    IF k = "volume" THEN volume_samples(name, detail) ELSE tier_samples(name, detail)

\* a failed detail fetch ends the collector (return for continue)
detail_pass_return(k, reply) ==
    /\ cpc[k] = "loop"
    /\ truthy(self_href(entries[k][idx[k]]))
    /\ \E entry \in {entries[k][idx[k]]} :
       \E r \in {fetch_json(Url(self_href(entry)[1]), reply, failed)} :
       \E samples \in {IF r.ret = None THEN <<>>
                       ELSE samples_of(k, name_of(entry), r.ret[1].fields)} :
           /\ failed' = r.failed
           /\ gauges' = set_all(gauges, samples)
           /\ writers' = Record(k, r.failed, samples)
           /\ IF r.ret = None
              THEN /\ cpc' = [cpc EXCEPT ![k] = "returned"]
                   /\ entries' = [entries EXCEPT ![k] = <<>>]
                   /\ idx' = [idx EXCEPT ![k] = 0]
              ELSE Advance(k)
    /\ UNCHANGED <<upstream, hpc, nsub, response>>

\* one pass of a for loop that follows the entry's detail link, on a reply
detail_pass(k, reply) ==
    /\ cpc[k] = "loop"
    /\ truthy(self_href(entries[k][idx[k]]))
    /\ \E entry \in {entries[k][idx[k]]} :
       \E r \in {fetch_json(Url(self_href(entry)[1]), reply, failed)} :
       \E samples \in {IF r.ret = None THEN <<>>
                       ELSE samples_of(k, name_of(entry), r.ret[1].fields)} :
           /\ failed' = r.failed
           /\ gauges' = set_all(gauges, samples)
           /\ writers' = Record(k, r.failed, samples)
    /\ Advance(k)
    /\ UNCHANGED <<upstream, hpc, nsub, response>>

Details(k) == IF k = "volume" THEN VolumeDetails ELSE TierDetails

DetailReplies(k) == Replies(k, {Object(d) : d \in Details(k)})

ListReplies(k) == Replies(k, ListBodies(k))

collect_volume_metrics ==
    \/ /\ cpc["volume"] = "list"
       /\ \E reply \in ListReplies("volume") : list_fetch("volume", reply)
    \/ skip_pass("volume")
    \/ /\ cpc["volume"] = "loop"
       /\ \E reply \in DetailReplies("volume") : detail_pass("volume", reply)

collect_tier_metrics ==
    \/ /\ cpc["tier"] = "list"
       /\ \E reply \in ListReplies("tier") : list_fetch("tier", reply)
    \/ skip_pass("tier")
    \/ /\ cpc["tier"] = "loop"
       /\ \E reply \in DetailReplies("tier") : detail_pass("tier", reply)

\* one pass of the node loop: the list entry itself is read
node_pass ==
    /\ cpc["node"] = "loop"
    /\ \E samples \in {node_samples(entries["node"][idx["node"]])} :
           /\ gauges' = set_all(gauges, samples)
           /\ writers' = Record("node", failed, samples)
    /\ Advance("node")
    /\ UNCHANGED <<upstream, hpc, nsub, failed, response>>

collect_node_metrics ==
    \/ /\ cpc["node"] = "list"
       /\ \E reply \in ListReplies("node") : list_fetch("node", reply)
    \/ node_pass

Next ==
    \/ metrics
    \/ executor_submit
    \/ collect_metrics_return
    \/ generate_latest
    \/ collect_volume_metrics
    \/ collect_tier_metrics
    \/ collect_node_metrics

Spec == Init /\ [][Next]_vars


\* a step of the process other than the arrival of a request
Run ==
    \/ executor_submit
    \/ collect_metrics_return
    \/ generate_latest
    \/ collect_volume_metrics
    \/ collect_tier_metrics
    \/ collect_node_metrics

\* the process keeps running: while a thread can take a step (a fetch ends
\* within its timeout), some thread does
Fairness == WF_vars(Run)

\* the clusters the liveness property is checked on
FairInit == Init /\ upstream \in {"faults", "tiers", "volume_info"}

FairSpec == FairInit /\ [][Next]_vars /\ Fairness

----------------------------------------------------------------------------
(* Vocabulary of the properties *)

\* collector k makes its list fetch in this step
ListStep(k) == cpc[k] = "list" /\ cpc'[k] # "list"

\* collector k makes one pass of its for loop in this step
Pass(k) == cpc[k] = "loop" /\ (idx'[k] # idx[k] \/ cpc'[k] # "loop")

Entry(k) == entries[k][idx[k]]

Linked(k) == truthy(self_href(Entry(k)))

DetailKinds == {"volume", "tier"}

\* the gauge family whose label is the resource name alone, per kind
Marker(k) ==
    IF k = "volume" THEN "netapp_volume_create_time"
    ELSE IF k = "tier" THEN "netapp_tier_used_bytes"
    ELSE "netapp_node_uptime_seconds"

NameLabel(k, name) ==
    IF k = "volume" THEN [volume |-> name]
    ELSE IF k = "tier" THEN [tier |-> name]
    ELSE [node |-> name]

KindOf(f) ==
    IF f \in VolumeFamilies THEN "volume" ELSE IF f \in TierFamilies THEN "tier" ELSE "node"

\* the resource name in a sample's labels
ResourceOf(f, l) ==
    IF f \in VolumeFamilies THEN l.volume ELSE IF f \in TierFamilies THEN l.tier ELSE l.node

HasSample(k, name) == NameLabel(k, name) \in DOMAIN gauges[Marker(k)]

\* after this step the entry's resource name has a sample
SetsSample(k) == NameLabel(k, name_of(Entry(k))) \in DOMAIN gauges'[Marker(k)]

\* this step sets exactly the samples some detail object of the cluster gives
WritesDetail(k) ==
    \E d \in Details(k) : gauges' = set_all(gauges, samples_of(k, name_of(Entry(k)), d))

----------------------------------------------------------------------------
(* C1 *)

\* C1: every failing fetch_json call (an exception of requests.get, a status
\* other than 200, a 200 body that is not JSON) returns None, adds exactly 1 to
\* failed_requests{endpoint=url}, leaves every other counter child and every
\* gauge sample as it was; a call answered 200 with JSON leaves the counter as
\* it was.
C1_FailedFetchCounted ==
    [][\A k \in Kinds :
        /\ ListStep(k) =>
             LET url == Url(ListPath(k))
             IN  /\ \A reply \in Failures :
                        list_fetch(k, reply) =>
                            /\ fetch_json(url, reply, failed).ret = None
                            /\ failed' = [u \in DOMAIN failed \cup {url} |->
                                            IF u = url THEN get(failed, url, 0) + 1
                                            ELSE failed[u]]
                            /\ gauges' = gauges
                            /\ cpc'[k] = "returned"
                 /\ (\A reply \in Failures : ~list_fetch(k, reply)) => failed' = failed
        /\ (k \in DetailKinds /\ Pass(k) /\ Linked(k)) =>
             LET url == Url(self_href(Entry(k))[1])
             IN  /\ \A reply \in Failures :
                        detail_pass(k, reply) =>
                            /\ fetch_json(url, reply, failed).ret = None
                            /\ failed' = [u \in DOMAIN failed \cup {url} |->
                                            IF u = url THEN get(failed, url, 0) + 1
                                            ELSE failed[u]]
                            /\ gauges' = gauges
                 /\ (\A reply \in Failures : ~detail_pass(k, reply)) => failed' = failed]_vars

\* two fetches of one detail URL have failed and gauges of that kind are set
C1_Witness ==
    \E k \in DetailKinds :
        /\ Url(Href(k)) \in DOMAIN failed
        /\ failed[Url(Href(k))] = 2
        /\ gauges[Marker(k)] # <<>>

----------------------------------------------------------------------------
(* C2 *)

----------------------------------------------------------------------------
(* C3 *)

\* C3 as claimed: a list endpoint answering the bare sequence L is processed as
\* one answering {"records": L}: the step the collector takes on the first is
\* the step it takes on the second.
C3_BareListAsEnvelope ==
    [][\A k \in Kinds :
        ListStep(k) =>
            \A l \in Lists(k) :
                list_fetch(k, Ok(Array(l))) => list_fetch(k, Ok(Envelope(l)))]_vars

----------------------------------------------------------------------------
(* C4 *)

\* C4: the handler leaves collect_metrics, renders and responds only once the
\* three collectors of the scrape have finished, and outside collect_metrics no
\* gauge and no counter changes: the response is the registry after the last
\* write of the scrape.
C4_RenderAfterAllCollectors ==
    /\ []((hpc = "render" \/ response # None) => \A k \in Kinds : Finished(k))
    /\ [](response # None => response[1] = [gauges |-> gauges, failed |-> failed])
    /\ [][hpc # "collect" => (gauges' = gauges /\ failed' = failed)]_vars

\* a response has been rendered with samples of all three kinds in it
C4_Witness ==
    /\ response # None
    /\ \A k \in Kinds : response[1].gauges[Marker(k)] # <<>>

----------------------------------------------------------------------------
(* C5 *)

\* C5: every scrape that enters collect_metrics is answered with a rendered
\* response (which takes all three collectors to have finished), whether or
\* not a fetch fails, fields are missing or a collector raises.
C5_ScrapeAnswered == (hpc = "collect") ~> (response # None)

\* a scrape was answered although a collector raised and a fetch failed
C5_Witness ==
    /\ response # None
    /\ \E k \in Kinds : cpc[k] = "raised"
    /\ \E k \in Kinds : cpc[k] = "returned" /\ Url(ListPath(k)) \in DOMAIN failed

----------------------------------------------------------------------------
(* C6 *)

\* the percentage p (a fraction) is used / size * 100 when size > 0, else 0
IsPercent(p, used, size) ==
    IF size > 0 THEN p[1] * size = used * 100 * p[2] /\ p[2] > 0
    ELSE p = <<0, 1>>

\* C6: wherever a usage-percent sample stands, the used-bytes and size-bytes
\* samples of the same resource stand too, and the percentage is
\* used / size * 100 when size > 0 and 0 when size is 0 (also when the field
\* is missing, which sets size to 0).
C6_UsagePercent ==
    /\ \A l \in DOMAIN gauges["netapp_volume_usage_percent"] :
        /\ l \in DOMAIN gauges["netapp_volume_used_bytes"]
        /\ l \in DOMAIN gauges["netapp_volume_size_bytes"]
        /\ IsPercent(gauges["netapp_volume_usage_percent"][l],
                     gauges["netapp_volume_used_bytes"][l][1],
                     gauges["netapp_volume_size_bytes"][l][1])
    /\ \A l \in DOMAIN gauges["netapp_tier_usage_percent"] :
        /\ l \in DOMAIN gauges["netapp_tier_used_bytes"]
        /\ l \in DOMAIN gauges["netapp_tier_size_bytes"]
        /\ IsPercent(gauges["netapp_tier_usage_percent"][l],
                     gauges["netapp_tier_used_bytes"][l][1],
                     gauges["netapp_tier_size_bytes"][l][1])

\* one volume with size > 0 and a percentage above 0, another with used > 0,
\* size 0 and percentage 0
C6_Witness ==
    \E l1, l2 \in DOMAIN gauges["netapp_volume_usage_percent"] :
        /\ gauges["netapp_volume_size_bytes"][l1][1] > 0
        /\ gauges["netapp_volume_usage_percent"][l1][1] > 0
        /\ gauges["netapp_volume_size_bytes"][l2][1] = 0
        /\ gauges["netapp_volume_used_bytes"][l2][1] > 0
        /\ gauges["netapp_volume_usage_percent"][l2] = <<0, 1>>

----------------------------------------------------------------------------
(* C7 *)

\* C7: a gauge sample, once set, stays in the registry; its value changes only
\* in a pass of the collector of its family over a list entry of the sample's
\* resource name whose detail fetch did not fail; and a response shows the
\* registry as it then stands.
C7_StaleUntilOverwritten ==
    /\ [][\A f \in GaugeFamilies : \A l \in DOMAIN gauges[f] :
            /\ l \in DOMAIN gauges'[f]
            /\ gauges'[f][l] # gauges[f][l] =>
                  /\ Pass(KindOf(f))
                  /\ name_of(Entry(KindOf(f))) = ResourceOf(f, l)
                  /\ failed' = failed]_vars
    /\ [](response # None => response[1].gauges = gauges)

\* volume "a" has a sample from an earlier scrape; the list of the running
\* scrape no longer holds it and nothing of this scrape has been written yet
C7_Witness ==
    /\ cpc["volume"] = "loop"
    /\ idx["volume"] = 1
    /\ \A i \in DOMAIN entries["volume"] : name_of(entries["volume"][i]) # NamePool[1]
    /\ HasSample("volume", NamePool[1])

----------------------------------------------------------------------------
(* C8 *)

\* C8: a pass of a collector's loop never ends the loop early: whatever
\* happens to an entry (no link, failed detail fetch, missing fields, a date
\* that does not parse), the collector moves to the next entry and returns
\* after the last; and a pass over a linked entry whose detail fetch did not
\* fail sets the samples of that entry (for a node: every pass).
C8_FullSweep ==
    [][\A k \in Kinds :
        Pass(k) =>
            /\ idx[k] < Len(entries[k]) =>
                  (cpc'[k] = "loop" /\ idx'[k] = idx[k] + 1 /\ entries'[k] = entries[k])
            /\ idx[k] = Len(entries[k]) => cpc'[k] = "returned"
            /\ (k \in DetailKinds /\ Linked(k) /\ failed' = failed) =>
                  (WritesDetail(k) /\ SetsSample(k))
            /\ k = "node" => SetsSample(k)]_vars

\* the detail fetch of the first entry failed (it is linked and has no sample)
\* and the collector stands at its linked sibling
C8_Witness ==
    \E k \in DetailKinds :
        /\ cpc[k] = "loop"
        /\ idx[k] = 2
        /\ truthy(self_href(entries[k][1]))
        /\ truthy(self_href(entries[k][2]))
        /\ name_of(entries[k][1]) # name_of(entries[k][2])
        /\ ~HasSample(k, name_of(entries[k][1]))
        /\ Url(Href(k)) \in DOMAIN failed

----------------------------------------------------------------------------
(* C9 *)

\* C9 as claimed: no metric family of the registry is written by more than one
\* collector.
C9_AllFamiliesDisjoint == \A f \in Families : Cardinality(writers[f]) <= 1

\* C9 amended: every gauge family is written by one collector only, the one of
\* its resource kind; netapp_failed_requests is written by fetch_json for
\* whichever collector's fetch fails, so by up to all three.
C9_GaugeFamiliesDisjoint ==
    /\ \A f \in GaugeFamilies : writers[f] \subseteq {KindOf(f)}
    /\ writers[CounterFamily] \subseteq Kinds

\* every gauge family has been written, and the counter by two collectors
C9_Witness ==
    /\ \A f \in GaugeFamilies : writers[f] # {}
    /\ Cardinality(writers[CounterFamily]) >= 2

----------------------------------------------------------------------------
(* C10 *)

InfoLabelNames == {"volume", "style", "type", "snapshot_policy", "svm"}

\* C10: every netapp_volume_info sample has the value 1 and the five labels;
\* no step removes one; and a volume pass whose detail fetch did not fail
\* leaves the samples there were plus the one of the labels just read, so a
\* volume whose labels changed has both its old and its new sample.
C10_InfoSamplesAccumulate ==
    /\ [](\A l \in DOMAIN gauges["netapp_volume_info"] :
            gauges["netapp_volume_info"][l] = <<1, 1>> /\ DOMAIN l = InfoLabelNames)
    /\ [][DOMAIN gauges["netapp_volume_info"] \subseteq DOMAIN gauges'["netapp_volume_info"]]_vars
    /\ [][(Pass("volume") /\ Linked("volume") /\ failed' = failed) =>
            \E d \in VolumeDetails :
                DOMAIN gauges'["netapp_volume_info"] =
                    DOMAIN gauges["netapp_volume_info"]
                        \cup {info_labels(name_of(Entry("volume")), d)}]_vars

\* one volume name has two info samples, with different labels
C10_Witness ==
    \E l1, l2 \in DOMAIN gauges["netapp_volume_info"] :
        l1.volume = l2.volume /\ l1.svm # l2.svm

====
